---------------------------- MODULE Spec2Model ----------------------------
(***************************************************************************)
(* A model of meshroom's GLView (src/src/gl/GLView.cpp): the camera        *)
(* interaction state machine driven by mouse and wheel events, the         *)
(* selection rectangle, the plane / roll / scale requests and the sync()   *)
(* step that hands pending requests to the renderer.                       *)
(*                                                                         *)
(* Numbers.  The code computes in C++ float.  A float value is modelled    *)
(* as an integer count of units of 2^-24 (One = 1.0), and every float      *)
(* operation rounds its exact result to 24 significant bits, ties to even, *)
(* as IEEE-754 binary32 does.  Values of magnitude below 1.0 are kept at   *)
(* the resolution 2^-24; the inputs of the specifications are chosen so    *)
(* that no value needs a finer one (pointer deltas are 0 or at least 50).  *)
(*                                                                         *)
(* Rotations.  The rotation block of the view matrix is kept exact: the    *)
(* Rotate drags of the model are those whose quaternions are quarter       *)
(* turns (a pointer delta of 200 makes the code's factor 0.005 * 200 equal *)
(* to 1.0), so every rotation block is a signed permutation matrix.        *)
(***************************************************************************)
EXTENDS Integers, Sequences, FiniteSets, TLC

\* ------------------------------------------------------------------------
\* Bounds of the model
\* ------------------------------------------------------------------------
\* largest magnitude, in whole units, of a camera translation component or
\* of the orbit radius that the environment drives the camera to
MaxCoord == 2

\* ------------------------------------------------------------------------
\* float arithmetic
\* ------------------------------------------------------------------------
\* number of significant bits of a C++ float
MantBits == 24

\* the float 1.0 in model units
One == 2^MantBits

\* significand of the floats nearest to 0.01 (* 2^-30) and 0.005 (* 2^-31)
Mant001 == 10737418

Abs(n) == IF n < 0 THEN -n ELSE n

Sgn(n) == IF n < 0 THEN -1 ELSE IF n > 0 THEN 1 ELSE 0

\* C++ integer division truncates toward zero
TruncDiv(a, b) == Sgn(a) * Sgn(b) * (Abs(a) \div Abs(b))

\* binary exponent, relative to the unit, of the last significant bit of a
\* float of magnitude m units
RECURSIVE ShiftOf(_)
ShiftOf(m) == IF m < One THEN 0 ELSE 1 + ShiftOf(m \div 2)

\* the float nearest to the non-negative rational n / den (in units),
\* ties to even
RoundRat(n, den) ==
    LET u == 2^ShiftOf(n \div den)
        d == den * u
        q == n \div d
        r == n % d
    IN  IF 2 * r < d \/ (2 * r = d /\ q % 2 = 0) THEN q * u ELSE (q + 1) * u

\* conversion of an exact result to float
RoundF(n) == Sgn(n) * RoundRat(Abs(n), 1)

\* float + float
FAdd(a, b) == RoundF(a + b)

\* float(0.01 * k) for an integer-valued float k: the product is formed in
\* double and then narrowed to float
Times001(k) == Sgn(k) * RoundRat(Abs(k) * (One \div 4), 25)

\* float(0.01) * k in float arithmetic
Times001f(k) == Sgn(k) * RoundRat(Mant001 * Abs(k), 64)

\* k * float(0.005) in float arithmetic
Times0005f(k) == Sgn(k) * RoundRat(Mant001 * Abs(k), 128)

\* ------------------------------------------------------------------------
\* QVector3D, QQuaternion, QMatrix4x4
\* ------------------------------------------------------------------------
NullVec == <<0, 0, 0>>

isNull(v) == v = NullVec

Neg(v) == <<-v[1], -v[2], -v[3]>>

\* vector * factor, exact when one of the two is 0 or +-1 in every component
Scale(v, s) == <<v[1] * s, v[2] * s, v[3] * s>>

Dot3(a, b) == a[1] * b[1] + a[2] * b[2] + a[3] * b[3]

Cross(a, b) == <<a[2] * b[3] - a[3] * b[2],
                 a[3] * b[1] - a[1] * b[3],
                 a[1] * b[2] - a[2] * b[1]>>

\* QVector3D::normalize on the rows of a rotation block: a vector of
\* length 1 is returned as it is
Normalize(v) == IF Dot3(v, v) = 1 THEN v
                ELSE LET l == CHOOSE k \in 0..Dot3(v, v) : k * k = Dot3(v, v)
                     IN  IF l = 0 THEN v ELSE <<v[1] \div l, v[2] \div l, v[3] \div l>>

IdentityRot == <<<<1, 0, 0>>, <<0, 1, 0>>, <<0, 0, 1>>>>

Col(m, j) == <<m[1][j], m[2][j], m[3][j]>>

MatMul(a, b) == <<<<Dot3(a[1], Col(b, 1)), Dot3(a[1], Col(b, 2)), Dot3(a[1], Col(b, 3))>>,
                  <<Dot3(a[2], Col(b, 1)), Dot3(a[2], Col(b, 2)), Dot3(a[2], Col(b, 3))>>,
                  <<Dot3(a[3], Col(b, 1)), Dot3(a[3], Col(b, 2)), Dot3(a[3], Col(b, 3))>>>>

\* QQuaternion(scalar, vector) as <<w, x, y, z>>
Quat(w, v) == <<w, v[1], v[2], v[3]>>

\* Hamilton product q1 * q2
QuatMul(p, q) ==
    LET pv == <<p[2], p[3], p[4]>>
        qv == <<q[2], q[3], q[4]>>
        c  == Cross(pv, qv)
    IN  <<p[1] * q[1] - Dot3(pv, qv),
          p[1] * qv[1] + q[1] * pv[1] + c[1],
          p[1] * qv[2] + q[1] * pv[2] + c[2],
          p[1] * qv[3] + q[1] * pv[3] + c[3]>>

\* the rotation of the normalized quaternion q / |q|
QuatToMat(q) ==
    LET w == q[1]  x == q[2]  y == q[3]  z == q[4]
        n == w * w + x * x + y * y + z * z
    IN  <<<<(n - 2 * (y * y + z * z)) \div n, (2 * (x * y - w * z)) \div n, (2 * (x * z + w * y)) \div n>>,
          <<(2 * (x * y + w * z)) \div n, (n - 2 * (x * x + z * z)) \div n, (2 * (y * z - w * x)) \div n>>,
          <<(2 * (x * z - w * y)) \div n, (2 * (y * z + w * x)) \div n, (n - 2 * (x * x + y * y)) \div n>>>>

\* QMatrix4x4::translate(v): cam := cam * T(v).  cam.r is the rotation
\* block (rows), cam.t the translation column
translate(cam, v) ==
    [cam EXCEPT !.t = <<FAdd(cam.t[1], Dot3(cam.r[1], v)),
                        FAdd(cam.t[2], Dot3(cam.r[2], v)),
                        FAdd(cam.t[3], Dot3(cam.r[3], v))>>]

\* QMatrix4x4::rotate(q): cam := cam * R(q)
rotate(cam, q) == [cam EXCEPT !.r = MatMul(cam.r, QuatToMat(q))]

\* ------------------------------------------------------------------------
\* Camera
\* ------------------------------------------------------------------------
\* Camera::setViewMatrix
setViewMatrix(c, m) == [c EXCEPT !.viewMatrix = m]

\* Camera::setLookAtRadius
setLookAtRadius(c, radius) == [c EXCEPT !.lookAtRadius = radius]

\* Camera::lookAt(): the orbit centre, the point lookAtRadius in front of
\* the view point
lookAt(c) ==
    LET cam == c.viewMatrix
        p   == <<-Dot3(Col(cam.r, 1), cam.t), -Dot3(Col(cam.r, 2), cam.t), -Dot3(Col(cam.r, 3), cam.t)>>
    IN  <<FAdd(p[1], -(cam.r[3][1] * c.lookAtRadius)),
          FAdd(p[2], -(cam.r[3][2] * c.lookAtRadius)),
          FAdd(p[3], -(cam.r[3][3] * c.lookAtRadius))>>

\* ------------------------------------------------------------------------
\* camera manipulation
\* ------------------------------------------------------------------------
\* the code's factor 0.005 * d is a whole number, so the quaternion
\* (1, axis * 0.005 * d) is a quarter turn or the identity
QuarterTurn(d) == Abs(d) <= 200 /\ Times0005f(d) % One = 0

\* a variant of turnTableRotateCamera that moves by the orbit centre a
\* second time instead of moving back
turnTableRotateCamera_away(cam, center, dx, dy) ==
    LET x    == Normalize(cam.r[1])
        y    == Normalize(<<0, 1, 0>>)
        sign == IF cam.r[2][2] > 0 THEN 1 ELSE -1
        ry   == Quat(1, Scale(Neg(y), (Times0005f(dx) \div One) * sign))
        rx   == Quat(1, Scale(Neg(x), Times0005f(dy) \div One))
    IN  translate(rotate(translate(cam, center), QuatMul(rx, ry)), center)

turnTableRotateCamera(cam, center, dx, dy) ==
    LET x    == Normalize(cam.r[1])
        y    == Normalize(<<0, 1, 0>>)
        sign == IF cam.r[2][2] > 0 THEN 1 ELSE -1
        ry   == Quat(1, Scale(Neg(y), (Times0005f(dx) \div One) * sign))
        rx   == Quat(1, Scale(Neg(x), Times0005f(dy) \div One))
    IN  translate(rotate(translate(cam, center), QuatMul(rx, ry)), Neg(center))

planeTranslateCamera(cam, dx, dy) ==
    LET x == Normalize(cam.r[1])
        y == Normalize(cam.r[2])
    IN  translate(translate(cam, Scale(Neg(x), Times001f(dx))), Scale(y, Times001f(dy)))

\* a variant of translateLineOfSightCamera whose radius only ever grows
translateLineOfSightCamera_outward(cam, radius, dx, dy) ==
    LET z      == Normalize(cam.r[3])
        offset == Times001(dx + dy)
    IN  [cam |-> translate(cam, Scale(Neg(z), offset)), radius |-> FAdd(radius, Abs(offset))]

translateLineOfSightCamera(cam, radius, dx, dy) ==
    LET z      == Normalize(cam.r[3])
        offset == Times001(dx + dy)
    IN  [cam |-> translate(cam, Scale(Neg(z), offset)), radius |-> FAdd(radius, offset)]


\* ------------------------------------------------------------------------
\* QPoint, QRect
\* ------------------------------------------------------------------------
Pt(px, py) == [x |-> px, y |-> py]

\* QPoint()
NullPoint == Pt(0, 0)

\* QRect(): the null rectangle, which is empty
NullRect == [x1 |-> 0, y1 |-> 0, x2 |-> -1, y2 |-> -1]

\* QRect::isEmpty()
isEmpty(rect) == rect.x1 > rect.x2 \/ rect.y1 > rect.y2

topLeft(rect) == Pt(rect.x1, rect.y1)

bottomRight(rect) == Pt(rect.x2, rect.y2)

Min(a, b) == IF a < b THEN a ELSE b

Max(a, b) == IF a > b THEN a ELSE b

\* ------------------------------------------------------------------------
\* inputs of the environment
\* ------------------------------------------------------------------------
\* keyboard modifiers of an event; "No" is Qt::NoModifier, and any
\* combination of modifiers behaves like "Other"
Modifiers == {"Alt", "Control", "Shift", "No", "Other"}

\* event->buttons() of a press: one button, or several at once
ButtonSets == {"Left", "Mid", "Right", "Left|Right"}

\* event->button() of a release
Buttons == {"Left", "Mid", "Right"}

\* pointer positions: a grid of 200 pixels
XCoords == {0, 200, 400}

YCoords == {0, 200}

Positions == {Pt(px, py) : px \in XCoords, py \in YCoords}

\* QWheelEvent::delta() values: eighths of a degree
WheelDeltas == {-240, -120, -60, 60, 120, 240}

\* arguments of defineYRot, in degrees
RollInputs == {-400, 400}

\* arguments of defineScale
ScaleInputs == {2}

\* the points of the loaded scene, in units, in the order in which a
\* growing selection rectangle reaches them: all of them lie in the plane
\* z = 0, the first three on one line
ScenePoints == <<<<0, 0, 0>>, <<3 * One, 3 * One, 0>>, <<6 * One, 6 * One, 0>>, <<0, 3 * One, 0>>>>

\* the unit vectors along the axes, as QVector3D
AxisVectors == {<<One, 0, 0>>, <<-One, 0, 0>>, <<0, One, 0>>, <<0, -One, 0>>,
                <<0, 0, One>>, <<0, 0, -One>>}

\* the renderer draws no plane
NoPlane == [shown |-> FALSE, normal |-> NullVec, origin |-> NullVec, yrot |-> 0]

\* the renderer draws no distance line
NoLine == [shown |-> FALSE, p0 |-> NullPoint, p1 |-> NullPoint]

\* GLRenderer::GLRenderer()
NewRenderer ==
    [live         |-> TRUE,
     cameraMatrix |-> [r |-> IdentityRot, t |-> NullVec],
     scene        |-> "",
     selection    |-> <<>>,
     plane        |-> NoPlane,
     distanceLine |-> NoLine]

\* _renderer(nullptr)
NullRenderer == [NewRenderer EXCEPT !.live = FALSE]

\* ------------------------------------------------------------------------
\* state
\* ------------------------------------------------------------------------
VARIABLES
    _camera,          \* Camera: [viewMatrix, lookAtRadius]
    _camMatTmp,       \* working copy of the view matrix
    _lookAtTmp,       \* cached orbit centre
    _cameraMode,      \* "Idle", "Rotate", "Translate", "Zoom"
    _mousePos,        \* last pointer sample
    _selectionMode,   \* "RECTANGLE" or "LINE"
    _selectedP0,      \* selection drag: press position
    _selectedP1,      \* selection drag: last position
    _selectedArea,    \* pending selection rectangle for sync
    _clearSelection,  \* pending request: clear the selection
    _selectedPoints,  \* "unset", or "selection": the renderer's selection
    _planeNormal,
    _planeOrigin,
    _yrotDegrees,     \* whole degrees
    _planeDefined,    \* pending request: show the plane
    _clearPlane,      \* pending request: hide the plane
    _scale,
    _distanceLine,
    _scaleDefined,    \* pending request: show the distance line
    _clearScale,      \* pending request: hide the distance line
    _alembicSceneUrl, \* "" or the url of a scene to load
    _renderer,        \* the GLRenderer's state; live is FALSE for nullptr
    emitted,          \* the signals and warnings emitted by the last handler
    crashed           \* the process dereferenced an unset pointer

cameraVars == <<_camera, _camMatTmp, _lookAtTmp, _cameraMode>>

selectionVars == <<_selectionMode, _selectedP0, _selectedP1, _selectedArea, _clearSelection>>

planeVars == <<_planeNormal, _planeOrigin, _yrotDegrees, _planeDefined, _clearPlane>>

scaleVars == <<_scale, _distanceLine, _scaleDefined, _clearScale>>

syncVars == <<_selectedPoints, _alembicSceneUrl, _renderer>>

vars == <<cameraVars, _mousePos, selectionVars, planeVars, scaleVars, syncVars,
          emitted, crashed>>

\* Camera::Camera(): the identity view, pulled back by the orbit radius
CameraInit(radius) ==
    [viewMatrix |-> [r |-> IdentityRot, t |-> <<0, 0, -radius>>], lookAtRadius |-> radius]

\* orbit radii of a freshly constructed camera
InitRadii == {2 * One}

\* the state after GLView::GLView(), for the given selection modes and
\* orbit radii of the camera
InitWith(selectionModes, radii) ==
    /\ \E radius \in radii : _camera = CameraInit(radius)
    /\ _camMatTmp = _camera.viewMatrix
    /\ _lookAtTmp = lookAt(_camera)
    /\ _cameraMode = "Idle"
    /\ _mousePos = NullPoint
    /\ _selectionMode \in selectionModes
    /\ _selectedP0 = NullPoint
    /\ _selectedP1 = NullPoint
    /\ _selectedArea = NullRect
    /\ _clearSelection = FALSE
    /\ _selectedPoints = "unset"
    /\ _planeNormal = NullVec
    /\ _planeOrigin = NullVec
    /\ _yrotDegrees = 0
    /\ _planeDefined = FALSE
    /\ _clearPlane = FALSE
    /\ _scale = 1
    /\ _distanceLine = <<NullVec, NullVec>>
    /\ _scaleDefined = FALSE
    /\ _clearScale = FALSE
    /\ _alembicSceneUrl = ""
    /\ _renderer = NullRenderer
    /\ emitted = {}
    /\ crashed = FALSE

Init == InitWith({"RECTANGLE", "LINE"}, InitRadii)

\* GLView::refresh(): asks the window for a new frame.  Frames, and the
\* sync call each one makes, are events of the environment; the request
\* changes no field of the view
refresh == TRUE

\* the camera stays within the bounds of the model
InRange(cam, radius) ==
    /\ \A i \in 1..3 : Abs(cam.t[i]) <= MaxCoord * One
    /\ Abs(radius) <= MaxCoord * One

\* ------------------------------------------------------------------------
\* camera events
\* ------------------------------------------------------------------------
handleCameraMousePressEvent(buttons, pos) ==
    /\ _mousePos' = pos
    /\ _camMatTmp' = _camera.viewMatrix
    /\ _lookAtTmp' = lookAt(_camera)
    /\ _cameraMode' = CASE buttons = "Left"  -> "Rotate"
                        [] buttons = "Mid"   -> "Translate"
                        [] buttons = "Right" -> "Zoom"
                        [] OTHER             -> _cameraMode
    /\ UNCHANGED _camera

\* a variant of cameraDrag whose Zoom case does not store the radius
cameraDrag_radiusKept(pos) ==
    LET dx == _mousePos.x - pos.x
        dy == _mousePos.y - pos.y
    IN  CASE _cameraMode = "Rotate" ->
                /\ _camMatTmp' = turnTableRotateCamera(_camMatTmp, _lookAtTmp, dx, dy)
                /\ _camera' = setViewMatrix(_camera, _camMatTmp')
                /\ _mousePos' = pos
                /\ UNCHANGED <<_lookAtTmp, _cameraMode>>
          [] _cameraMode = "Translate" ->
                /\ _camMatTmp' = planeTranslateCamera(_camMatTmp, dx, dy)
                /\ _camera' = setViewMatrix(_camera, _camMatTmp')
                /\ _lookAtTmp' = lookAt(_camera')
                /\ _mousePos' = pos
                /\ UNCHANGED _cameraMode
          [] _cameraMode = "Zoom" ->
                LET moved == translateLineOfSightCamera(_camMatTmp, _camera.lookAtRadius, dx, dy)
                IN  /\ _camMatTmp' = moved.cam
                    /\ _camera' = setViewMatrix(_camera, moved.cam)
                    /\ _lookAtTmp' = lookAt(_camera')
                    /\ _mousePos' = pos
                    /\ UNCHANGED _cameraMode

\* the Rotate, Translate and Zoom cases of handleCameraMouseMoveEvent
cameraDrag(pos) ==
    LET dx == _mousePos.x - pos.x
        dy == _mousePos.y - pos.y
    IN  CASE _cameraMode = "Rotate" ->
                /\ _camMatTmp' = turnTableRotateCamera(_camMatTmp, _lookAtTmp, dx, dy)
                /\ _camera' = setViewMatrix(_camera, _camMatTmp')
                /\ _mousePos' = pos
                /\ refresh
                /\ UNCHANGED <<_lookAtTmp, _cameraMode>>
          [] _cameraMode = "Translate" ->
                /\ _camMatTmp' = planeTranslateCamera(_camMatTmp, dx, dy)
                /\ _camera' = setViewMatrix(_camera, _camMatTmp')
                /\ _lookAtTmp' = lookAt(_camera')
                /\ _mousePos' = pos
                /\ refresh
                /\ UNCHANGED _cameraMode
          [] _cameraMode = "Zoom" ->
                LET moved == translateLineOfSightCamera(_camMatTmp, _camera.lookAtRadius, dx, dy)
                IN  /\ _camMatTmp' = moved.cam
                    /\ _camera' = setViewMatrix(setLookAtRadius(_camera, moved.radius), moved.cam)
                    /\ _lookAtTmp' = lookAt(_camera')
                    /\ _mousePos' = pos
                    /\ refresh
                    /\ UNCHANGED _cameraMode

\* a variant of handleCameraMouseMoveEvent that samples the pointer in the
\* Idle case too
handleCameraMouseMoveEvent_sampling(pos) ==
    IF _cameraMode = "Idle"
    THEN /\ _mousePos' = pos
         /\ UNCHANGED cameraVars
    ELSE cameraDrag(pos)

handleCameraMouseMoveEvent(pos) ==
    IF _cameraMode = "Idle"
    THEN UNCHANGED <<cameraVars, _mousePos>>
    ELSE cameraDrag(pos)

\* a variant of wheelEvent whose divisions round down instead of toward 0
wheelEvent_floor(delta, pos) ==
    LET numDegrees == delta \div 8
        numSteps   == numDegrees \div 15
        fdelta     == numSteps * 100
        moved      == translateLineOfSightCamera(_camMatTmp, _camera.lookAtRadius, -fdelta, 0)
    IN  /\ _camMatTmp' = moved.cam
        /\ _camera' = setViewMatrix(setLookAtRadius(_camera, moved.radius), moved.cam)
        /\ _lookAtTmp' = lookAt(_camera')
        /\ _mousePos' = pos
        /\ emitted' = {}
        /\ UNCHANGED <<_cameraMode, selectionVars, planeVars, scaleVars, syncVars, crashed>>

wheelEvent(delta, pos) ==
    LET numDegrees == TruncDiv(delta, 8)
        numSteps   == TruncDiv(numDegrees, 15)
        fdelta     == numSteps * 100
        moved      == translateLineOfSightCamera(_camMatTmp, _camera.lookAtRadius, -fdelta, 0)
    IN  /\ _camMatTmp' = moved.cam
        /\ _camera' = setViewMatrix(setLookAtRadius(_camera, moved.radius), moved.cam)
        /\ _lookAtTmp' = lookAt(_camera')
        /\ _mousePos' = pos
        /\ refresh
        /\ emitted' = {}
        /\ UNCHANGED <<_cameraMode, selectionVars, planeVars, scaleVars, syncVars, crashed>>

\* ------------------------------------------------------------------------
\* selection events
\* ------------------------------------------------------------------------
\* a variant of getSelectionRect without the adjustment by one pixel
getSelectionRect_unadjusted ==
    LET tl == Pt(Min(_selectedP0.x, _selectedP1.x), Min(_selectedP0.y, _selectedP1.y))
        br == Pt(Max(_selectedP0.x, _selectedP1.x), Max(_selectedP0.y, _selectedP1.y))
    IN  [x1 |-> tl.x, y1 |-> tl.y, x2 |-> br.x, y2 |-> br.y]

getSelectionRect ==
    LET tl == Pt(Min(_selectedP0.x, _selectedP1.x), Min(_selectedP0.y, _selectedP1.y))
        br == Pt(Max(_selectedP0.x, _selectedP1.x), Max(_selectedP0.y, _selectedP1.y))
    IN  [x1 |-> tl.x, y1 |-> tl.y, x2 |-> br.x - 1, y2 |-> br.y - 1]

handleSelectionMousePressEvent(pos) ==
    /\ _mousePos' = pos
    /\ _selectedP0' = pos
    /\ _selectedP1' = pos
    /\ UNCHANGED <<_selectionMode, _selectedArea, _clearSelection>>

handleSelectionMouseReleaseEvent ==
    /\ _clearSelection' = IF _selectedP0 = _selectedP1 THEN TRUE ELSE _clearSelection
    /\ _selectedArea' = getSelectionRect
    /\ _selectedP0' = NullPoint
    /\ _selectedP1' = NullPoint
    /\ refresh
    /\ UNCHANGED _selectionMode

handleSelectionMouseMoveEvent(pos) ==
    /\ _selectedP1' = pos
    /\ refresh
    /\ UNCHANGED <<_selectionMode, _selectedP0, _selectedArea, _clearSelection>>

\* ------------------------------------------------------------------------
\* plane, roll and scale requests
\* ------------------------------------------------------------------------
\* *_selectedPoints, once sync has pointed it at the renderer's selection
SelectedPoints == _renderer.selection

\* a vector of whole numbers, from units
Whole(v) == <<v[1] \div One, v[2] \div One, v[3] \div One>>

\* the candidates for the last column of the U factor of the centred point
\* matrix: the points of the model are coplanar, so its smallest singular
\* value is 0 and every unit vector orthogonal to all centred points is a
\* left singular vector for it; the decomposition returns one of them
PlaneNormals(points, origin) ==
    {n \in AxisVectors :
        \A i \in 1..Len(points) :
            Dot3(Whole(n), <<points[i][1] - origin[1],
                             points[i][2] - origin[2],
                             points[i][3] - origin[3]>>) = 0}

RECURSIVE SumPoints(_, _)
SumPoints(points, k) ==
    IF k = 0 THEN NullVec
    ELSE LET s == SumPoints(points, k - 1)
         IN  <<FAdd(s[1], points[k][1]), FAdd(s[2], points[k][2]), FAdd(s[3], points[k][3])>>

\* mat.rowwise().sum() / mat.cols()
Centroid(points) ==
    LET s == SumPoints(points, Len(points))
        n == Len(points)
    IN  <<Sgn(s[1]) * RoundRat(Abs(s[1]), n),
          Sgn(s[2]) * RoundRat(Abs(s[2]), n),
          Sgn(s[3]) * RoundRat(Abs(s[3]), n)>>

\* the contents a read through the unset _selectedPoints may find
WildSelections == {SubSeq(ScenePoints, 1, k) : k \in 0..Len(ScenePoints)}

\* a variant of the body of definePlane that raises the update request
\* before it looks at the number of points
definePlaneBody_eager(points) ==
    IF Len(points) < 3
    THEN /\ emitted' = {"qWarning"}
         /\ _planeDefined' = TRUE
         /\ UNCHANGED <<_planeNormal, _planeOrigin, _yrotDegrees, _clearPlane>>
    ELSE /\ emitted' = {}
         /\ _planeOrigin' = Centroid(points)
         /\ _planeNormal' \in PlaneNormals(points, _planeOrigin')
         /\ _planeDefined' = TRUE
         /\ UNCHANGED <<_yrotDegrees, _clearPlane>>

\* the body of definePlane, on the selection its pointer leads to
definePlaneBody(points) ==
    IF Len(points) < 3
    THEN /\ emitted' = {"qWarning"}
         /\ UNCHANGED planeVars
    ELSE /\ emitted' = {}
         /\ _planeOrigin' = Centroid(points)
         /\ _planeNormal' \in PlaneNormals(points, _planeOrigin')
         /\ _planeDefined' = TRUE
         /\ refresh
         /\ UNCHANGED <<_yrotDegrees, _clearPlane>>

\* GLView::definePlane().  Before the first selection step of sync the
\* pointer _selectedPoints is unset: the read through it ends the process
\* or finds some contents
definePlane ==
    /\ ~crashed
    /\ IF _selectedPoints = "unset"
       THEN \/ /\ crashed' = TRUE
               /\ emitted' = {}
               /\ UNCHANGED planeVars
            \/ /\ UNCHANGED crashed
               /\ \E points \in WildSelections : definePlaneBody(points)
       ELSE /\ UNCHANGED crashed
            /\ definePlaneBody(SelectedPoints)
    /\ UNCHANGED <<cameraVars, _mousePos, selectionVars, scaleVars, syncVars>>

clearPlane ==
    /\ ~crashed
    /\ _clearPlane' = TRUE
    /\ _planeNormal' = NullVec
    /\ refresh
    /\ emitted' = {}
    /\ UNCHANGED <<_planeOrigin, _yrotDegrees, _planeDefined>>
    /\ UNCHANGED <<cameraVars, _mousePos, selectionVars, scaleVars, syncVars, crashed>>

\* a variant of the body of flipPlaneNormal without the test of the normal
flipPlaneNormalBody_unguarded ==
    /\ _planeNormal' = Neg(_planeNormal)
    /\ _planeDefined' = TRUE
    /\ UNCHANGED <<_planeOrigin, _yrotDegrees, _clearPlane>>

\* the body of flipPlaneNormal, on the plane variables
flipPlaneNormalBody ==
    IF ~isNull(_planeNormal)
    THEN /\ _planeNormal' = Neg(_planeNormal)
         /\ _planeDefined' = TRUE
         /\ refresh
         /\ UNCHANGED <<_planeOrigin, _yrotDegrees, _clearPlane>>
    ELSE UNCHANGED planeVars

flipPlaneNormal ==
    /\ ~crashed
    /\ flipPlaneNormalBody
    /\ emitted' = {}
    /\ UNCHANGED <<cameraVars, _mousePos, selectionVars, scaleVars, syncVars, crashed>>

\* a variant of the body of defineYRot without the test of the normal
defineYRotBody_unguarded(degrees) ==
    /\ _yrotDegrees' = degrees
    /\ _planeDefined' = TRUE
    /\ emitted' = {"yrotChanged"}
    /\ UNCHANGED <<_planeNormal, _planeOrigin, _clearPlane>>

\* the body of defineYRot: the plane variables, the update request and the
\* signal it emits
defineYRotBody(degrees) ==
    IF ~isNull(_planeNormal)
    THEN /\ _yrotDegrees' = degrees
         /\ _planeDefined' = TRUE
         /\ refresh
         /\ emitted' = {"yrotChanged"}
         /\ UNCHANGED <<_planeNormal, _planeOrigin, _clearPlane>>
    ELSE /\ emitted' = {}
         /\ UNCHANGED planeVars

defineYRot(degrees) ==
    /\ ~crashed
    /\ defineYRotBody(degrees)
    /\ UNCHANGED <<cameraVars, _mousePos, selectionVars, scaleVars, syncVars, crashed>>

\* the body of defineScale, on the selection its pointer leads to
defineScaleBody(scale, points) ==
    IF Len(points) # 2
    THEN /\ emitted' = {}
         /\ UNCHANGED scaleVars
    ELSE /\ _distanceLine' = <<points[1], points[2]>>
         /\ _scale' = scale
         /\ _scaleDefined' = TRUE
         /\ refresh
         /\ emitted' = IF scale # _scale' THEN {"scaleChanged"} ELSE {}
         /\ UNCHANGED _clearScale

defineScale(scale) ==
    /\ ~crashed
    /\ IF _selectedPoints = "unset"
       THEN \/ /\ crashed' = TRUE
               /\ emitted' = {}
               /\ UNCHANGED scaleVars
            \/ /\ UNCHANGED crashed
               /\ \E points \in WildSelections : defineScaleBody(scale, points)
       ELSE /\ UNCHANGED crashed
            /\ defineScaleBody(scale, SelectedPoints)
    /\ UNCHANGED <<cameraVars, _mousePos, selectionVars, planeVars, syncVars>>

resetScale ==
    /\ ~crashed
    /\ _scale' = 1
    /\ _clearScale' = TRUE
    /\ emitted' = {"scaleChanged"}
    /\ refresh
    /\ UNCHANGED <<_distanceLine, _scaleDefined>>
    /\ UNCHANGED <<cameraVars, _mousePos, selectionVars, planeVars, syncVars, crashed>>

\* the url of the scene the user loads
SceneUrl == "scene.abc"

loadAlembicScene(url) ==
    /\ ~crashed
    /\ _alembicSceneUrl' = url
    /\ refresh
    /\ emitted' = {}
    /\ UNCHANGED <<cameraVars, _mousePos, selectionVars, planeVars, scaleVars,
                   _selectedPoints, _renderer, crashed>>

\* ------------------------------------------------------------------------
\* roll drag
\* ------------------------------------------------------------------------
handleYRotMousePressEvent(pos) ==
    _mousePos' = pos

handleYRotMouseMoveEvent(pos) ==
    LET d  == pos.x - _mousePos.x
        d1 == IF d < -359 THEN -359 ELSE d
        d2 == IF d1 > 359 THEN 359 ELSE d1
    IN  defineYRotBody(d2)


\* ------------------------------------------------------------------------
\* mouse events
\* ------------------------------------------------------------------------
mousePressEvent(mods, buttons, pos) ==
    /\ ~crashed
    /\ emitted' = {}
    /\ IF mods = "Alt"
       THEN /\ handleCameraMousePressEvent(buttons, pos)
            /\ UNCHANGED selectionVars
       ELSE IF mods = "Control" /\ buttons = "Left"
       THEN /\ handleSelectionMousePressEvent(pos)
            /\ UNCHANGED cameraVars
       ELSE IF mods = "Shift" /\ buttons = "Left"
       THEN /\ handleYRotMousePressEvent(pos)
            /\ UNCHANGED <<cameraVars, selectionVars>>
       ELSE UNCHANGED <<cameraVars, _mousePos, selectionVars>>
    /\ UNCHANGED <<planeVars, scaleVars, syncVars, crashed>>

mouseMoveEvent(mods, pos) ==
    /\ ~crashed
    /\ IF mods = "Alt"
       THEN /\ handleCameraMouseMoveEvent(pos)
            /\ emitted' = {}
            /\ UNCHANGED <<selectionVars, planeVars>>
       ELSE IF mods = "Control"
       THEN /\ handleSelectionMouseMoveEvent(pos)
            /\ emitted' = {}
            /\ UNCHANGED <<cameraVars, _mousePos, planeVars>>
       ELSE IF mods = "Shift"
       THEN /\ handleYRotMouseMoveEvent(pos)
            /\ UNCHANGED <<cameraVars, _mousePos, selectionVars>>
       ELSE /\ emitted' = {}
            /\ UNCHANGED <<cameraVars, _mousePos, selectionVars, planeVars>>
    /\ UNCHANGED <<scaleVars, syncVars, crashed>>

mouseReleaseEvent(mods, button) ==
    /\ ~crashed
    /\ IF mods = "Alt"
       THEN /\ _cameraMode' = "Idle"
            /\ emitted' = {}
            /\ UNCHANGED <<_camera, _camMatTmp, _lookAtTmp, selectionVars>>
       ELSE IF mods = "Control"
       THEN /\ handleSelectionMouseReleaseEvent
            /\ emitted' = {}
            /\ UNCHANGED cameraVars
       ELSE IF mods = "No" /\ button = "Right"
       THEN /\ emitted' = {"openPopup"}
            /\ UNCHANGED <<cameraVars, selectionVars>>
       ELSE /\ emitted' = {}
            /\ UNCHANGED <<cameraVars, selectionVars>>
    /\ refresh
    /\ UNCHANGED <<_mousePos, planeVars, scaleVars, syncVars, crashed>>

\* ------------------------------------------------------------------------
\* the renderer and sync
\* ------------------------------------------------------------------------
\* GLRenderer::addPointsToSelection: the selections the renderer can hold
\* after adding the points under a selected area to the selection sel; no
\* scene, no points
AddedToSelection(rd) ==
    IF rd.scene = "" THEN {rd.selection}
    ELSE {SubSeq(ScenePoints, 1, k) : k \in Len(rd.selection)..Len(ScenePoints)}

\* sync: "Triggers a load when the file name is not null"
syncScene(rd) ==
    /\ _renderer' = [rd EXCEPT !.scene = _alembicSceneUrl]
    /\ _alembicSceneUrl' = ""
    /\ UNCHANGED <<_selectedPoints, selectionVars, planeVars, scaleVars>>

\* sync: "Selection", a pending area
syncSelection(rd) ==
    /\ \E selection \in AddedToSelection(rd) :
          _renderer' = [rd EXCEPT !.selection = selection]
    /\ _selectedPoints' = "selection"
    /\ _selectedArea' = NullRect
    /\ UNCHANGED <<_alembicSceneUrl, _selectionMode, _selectedP0, _selectedP1,
                   _clearSelection, planeVars, scaleVars>>

\* a variant of the clear-selection step of sync that leaves the request
\* pending
syncClearSelection_sticky(rd) ==
    /\ _renderer' = [rd EXCEPT !.selection = <<>>]
    /\ UNCHANGED <<_alembicSceneUrl, _selectedPoints, selectionVars, planeVars, scaleVars>>

\* sync: "Selection", a pending clear
syncClearSelection(rd) ==
    /\ _renderer' = [rd EXCEPT !.selection = <<>>]
    /\ _clearSelection' = FALSE
    /\ UNCHANGED <<_alembicSceneUrl, _selectedPoints, _selectionMode, _selectedP0,
                   _selectedP1, _selectedArea, planeVars, scaleVars>>

\* sync: "Plane", a pending setPlane
syncPlane(rd) ==
    /\ _renderer' = [rd EXCEPT !.plane = [shown  |-> TRUE,
                                          normal |-> _planeNormal,
                                          origin |-> _planeOrigin,
                                          yrot   |-> _yrotDegrees]]
    /\ _planeDefined' = FALSE
    /\ UNCHANGED <<_alembicSceneUrl, _selectedPoints, selectionVars, _planeNormal,
                   _planeOrigin, _yrotDegrees, _clearPlane, scaleVars>>

\* sync: "Plane", a pending clearPlane
syncClearPlane(rd) ==
    /\ _renderer' = [rd EXCEPT !.plane = NoPlane]
    /\ _clearPlane' = FALSE
    /\ UNCHANGED <<_alembicSceneUrl, _selectedPoints, selectionVars, _planeNormal,
                   _planeOrigin, _yrotDegrees, _planeDefined, scaleVars>>

\* sync: "Scale", a pending setDistanceLine
syncScale(rd) ==
    /\ _renderer' = [rd EXCEPT !.distanceLine = [shown |-> TRUE,
                                                 p0    |-> topLeft(_selectedArea),
                                                 p1    |-> bottomRight(_selectedArea)]]
    /\ _scaleDefined' = FALSE
    /\ UNCHANGED <<_alembicSceneUrl, _selectedPoints, selectionVars, planeVars,
                   _scale, _distanceLine, _clearScale>>

\* sync: "Scale", a pending clearDistanceLine
syncClearScale(rd) ==
    /\ _renderer' = [rd EXCEPT !.distanceLine = NoLine]
    /\ _clearScale' = FALSE
    /\ UNCHANGED <<_alembicSceneUrl, _selectedPoints, selectionVars, planeVars,
                   _scale, _distanceLine, _scaleDefined>>

\* a variant of sync that serves the scale requests before the selection
sync_scaleFirst ==
    /\ ~crashed
    /\ emitted' = {}
    /\ LET rd0 == IF ~_renderer.live THEN NewRenderer ELSE _renderer
           rd  == [rd0 EXCEPT !.cameraMatrix = _camera.viewMatrix]
       IN  IF _alembicSceneUrl # "" THEN syncScene(rd)
           ELSE IF _scaleDefined THEN syncScale(rd)
           ELSE IF _clearScale THEN syncClearScale(rd)
           ELSE IF ~isEmpty(_selectedArea) THEN syncSelection(rd)
           ELSE IF _clearSelection THEN syncClearSelection(rd)
           ELSE IF _planeDefined THEN syncPlane(rd)
           ELSE IF _clearPlane THEN syncClearPlane(rd)
           ELSE /\ _renderer' = rd
                /\ UNCHANGED <<_alembicSceneUrl, _selectedPoints, selectionVars, planeVars,
                               scaleVars>>
    /\ UNCHANGED <<cameraVars, _mousePos, crashed>>

\* GLView::sync(): creates the renderer on the first call, hands it the
\* camera matrix, and then serves the first pending request, one per call.
\* The viewport and the clear colour it also passes are not in the model
sync ==
    /\ ~crashed
    /\ emitted' = {}
    /\ LET rd0 == IF ~_renderer.live THEN NewRenderer ELSE _renderer
           rd  == [rd0 EXCEPT !.cameraMatrix = _camera.viewMatrix]
       IN  IF _alembicSceneUrl # "" THEN syncScene(rd)
           ELSE IF ~isEmpty(_selectedArea) THEN syncSelection(rd)
           ELSE IF _clearSelection THEN syncClearSelection(rd)
           ELSE IF _planeDefined THEN syncPlane(rd)
           ELSE IF _clearPlane THEN syncClearPlane(rd)
           ELSE IF _scaleDefined THEN syncScale(rd)
           ELSE IF _clearScale THEN syncClearScale(rd)
           ELSE /\ _renderer' = rd
                /\ UNCHANGED <<_alembicSceneUrl, _selectedPoints, selectionVars, planeVars,
                               scaleVars>>
    /\ UNCHANGED <<cameraVars, _mousePos, crashed>>

\* ------------------------------------------------------------------------
\* the environment: events and calls, with their inputs
\* ------------------------------------------------------------------------
\* the pointer deltas for which the model computes the camera step as the
\* code does: quarter turns for Rotate, products within 32-bit integers
\* for Translate and Zoom
Computable(pos) ==
    LET dx == _mousePos.x - pos.x
        dy == _mousePos.y - pos.y
    IN  CASE _cameraMode = "Rotate"    -> QuarterTurn(dx) /\ QuarterTurn(dy)
          [] _cameraMode = "Translate" -> Abs(dx) <= 200 /\ Abs(dy) <= 200
          [] _cameraMode = "Zoom"      -> dx + dy = 0 \/ (50 <= Abs(dx + dy) /\ Abs(dx + dy) < 512)
          [] OTHER                     -> TRUE

MousePress(mods, positions) ==
    \E m \in mods, b \in ButtonSets, p \in positions : mousePressEvent(m, b, p)

MouseMove(mods, positions) ==
    \E m \in mods, p \in positions :
        /\ m = "Alt" => Computable(p)
        /\ mouseMoveEvent(m, p)
        /\ InRange(_camera'.viewMatrix, _camera'.lookAtRadius)

MouseRelease(mods, buttons) ==
    \E m \in mods, b \in buttons : mouseReleaseEvent(m, b)

Wheel(positions) ==
    \E d \in WheelDeltas, p \in positions :
        /\ ~crashed
        /\ wheelEvent(d, p)
        /\ InRange(_camera'.viewMatrix, _camera'.lookAtRadius)

Sync == sync

DefinePlane == definePlane

ClearPlane == clearPlane

FlipPlaneNormal == flipPlaneNormal

DefineYRot == \E degrees \in RollInputs : defineYRot(degrees)

DefineScale == \E scale \in ScaleInputs : defineScale(scale)

ResetScale == resetScale

LoadAlembicScene == loadAlembicScene(SceneUrl)

\* every event and call, with every input
Next ==
    \/ MousePress(Modifiers, Positions)
    \/ MouseMove(Modifiers, Positions)
    \/ MouseRelease(Modifiers, Buttons)
    \/ Wheel(Positions)
    \/ Sync
    \/ DefinePlane
    \/ ClearPlane
    \/ FlipPlaneNormal
    \/ DefineYRot
    \/ DefineScale
    \/ ResetScale
    \/ LoadAlembicScene

Spec == Init /\ [][Next]_vars

\* the camera under pointer and wheel events: presses and moves with the
\* camera modifier or none, releases with any modifier
CameraPositions == {Pt(0, 0), Pt(200, 0), Pt(0, 200)}

CameraNext ==
    \/ MousePress({"Alt", "No"}, CameraPositions)
    \/ MouseMove({"Alt", "No"}, CameraPositions)
    \/ MouseRelease({"Alt", "No"}, {"Left", "Right"})
    \/ Wheel(CameraPositions)

CameraSpec == InitWith({"RECTANGLE"}, InitRadii) /\ [][CameraNext]_vars

\* pointer positions of the selection and roll drags: where the button goes
\* down, and where the pointer moves
PressPositions == {Pt(0, 0)}

DragPositions == {Pt(0, 0), Pt(400, 200)}

\* the selection, plane and roll requests and their delivery by sync
PlaneNext ==
    \/ MousePress({"Control", "Shift"}, PressPositions)
    \/ MouseMove({"Control", "Shift"}, DragPositions)
    \/ MouseRelease({"Control"}, {"Left"})
    \/ Sync
    \/ DefinePlane
    \/ ClearPlane
    \/ FlipPlaneNormal
    \/ DefineYRot
    \/ LoadAlembicScene

PlaneSpec == InitWith({"RECTANGLE"}, InitRadii) /\ [][PlaneNext]_vars

\* the plane requests against the requests sync serves before them, with a
\* frame, and so a sync call, always coming: every handler that changes the
\* view asks for one
LiveNext ==
    \/ MousePress({"Control"}, PressPositions)
    \/ MouseMove({"Control"}, DragPositions)
    \/ MouseRelease({"Control"}, {"Left"})
    \/ Sync
    \/ DefinePlane
    \/ FlipPlaneNormal
    \/ DefineYRot
    \/ LoadAlembicScene

LiveSpec == InitWith({"RECTANGLE"}, InitRadii) /\ [][LiveNext]_vars /\ WF_vars(Sync)

\* number of pointer columns of the dolly drags
MaxSteps == 3

\* pointer positions of the dolly drags and wheel turns: one column per
\* step, and rows 72, 100 and 172 pixels apart
DollyPositions == {Pt(px, py) : px \in 0..MaxSteps, py \in {0, 72, 172}}

\* the pointer of the dolly drags never moves left, and every step that
\* moves the camera takes it one column or more to the right: a run has
\* at most MaxSteps such steps
DollyPress ==
    \E p \in DollyPositions :
        /\ p.x >= _mousePos.x
        /\ mousePressEvent("Alt", "Right", p)

DollyMove ==
    \E p \in DollyPositions :
        /\ p.x > _mousePos.x
        /\ Computable(p)
        /\ mouseMoveEvent("Alt", p)
        /\ InRange(_camera'.viewMatrix, _camera'.lookAtRadius)

DollyRelease == mouseReleaseEvent("Alt", "Right")

DollyWheel ==
    \E d \in WheelDeltas, p \in DollyPositions :
        /\ p.x > _mousePos.x
        /\ ~crashed
        /\ wheelEvent(d, p)
        /\ InRange(_camera'.viewMatrix, _camera'.lookAtRadius)

\* the camera under Zoom drags and wheel turns
DollyNext ==
    \/ DollyPress
    \/ DollyMove
    \/ DollyRelease
    \/ DollyWheel

DollySpec == InitWith({"RECTANGLE"}, InitRadii) /\ [][DollyNext]_vars

\* where the button of the one Zoom drag goes down
ZoomOrigin == Pt(0, 0)

\* pointer positions of the moves of the one Zoom drag: one column per
\* move, and rows 50 pixels or more from the press and from each other
ZoomPositions == {Pt(px, py) : px \in 1..MaxSteps, py \in {50, 105, 161, 197, 232, 290, 351, 393}}

\* the press of the drag: the pointer never moves left, so no press
\* follows a move
ZoomPress ==
    /\ ZoomOrigin.x >= _mousePos.x
    /\ mousePressEvent("Alt", "Right", ZoomOrigin)

\* a move of the drag, one column or more to the right
ZoomMove ==
    \E p \in ZoomPositions :
        /\ p.x > _mousePos.x
        /\ Computable(p)
        /\ mouseMoveEvent("Alt", p)
        /\ InRange(_camera'.viewMatrix, _camera'.lookAtRadius)

ZoomRelease == mouseReleaseEvent("Alt", "Right")

\* one Zoom drag from the first pose of the camera: a press at ZoomOrigin,
\* at most MaxSteps moves, a release
ZoomNext ==
    \/ ZoomPress
    \/ ZoomMove
    \/ ZoomRelease

ZoomSpec == InitWith({"RECTANGLE"}, InitRadii) /\ [][ZoomNext]_vars

\* pointer positions of the turntable drags: columns 151, 200 and 71
\* pixels apart, rows 151 and 200 pixels apart
TurnPositions == {Pt(px, py) : px \in {0, 151, 351, 422}, py \in {0, 151, 351}}

\* a camera press; the pointer never moves left
TurnPress ==
    \E b \in Buttons, p \in TurnPositions :
        /\ p.x >= _mousePos.x
        /\ mousePressEvent("Alt", b, p)

\* a camera move to the right, or one that stays where the pointer is
TurnMove ==
    \E p \in TurnPositions :
        /\ p.x > _mousePos.x \/ p = _mousePos
        /\ Computable(p)
        /\ mouseMoveEvent("Alt", p)
        /\ InRange(_camera'.viewMatrix, _camera'.lookAtRadius)

TurnRelease == mouseReleaseEvent("Alt", "Left")

\* Rotate, Translate and Zoom drags, one after the other
TurnNext ==
    \/ TurnPress
    \/ TurnMove
    \/ TurnRelease

TurnSpec == InitWith({"RECTANGLE"}, InitRadii) /\ [][TurnNext]_vars

\* pointer positions of the selection drags: a click, drags in all four
\* directions, and drags along one column
SelectPositions == {Pt(0, 0), Pt(400, 200), Pt(400, 0)}

\* the selection drags and clicks, scene loads, and sync
SelectNext ==
    \/ MousePress({"Control"}, SelectPositions)
    \/ MouseMove({"Control"}, SelectPositions)
    \/ MouseRelease({"Control"}, {"Left"})
    \/ Sync
    \/ LoadAlembicScene

SelectSpec == InitWith({"RECTANGLE", "LINE"}, InitRadii) /\ [][SelectNext]_vars

\* the selection drags and clicks, scene loads, the scale calls, and sync
ScaleNext ==
    \/ MousePress({"Control"}, SelectPositions)
    \/ MouseMove({"Control"}, SelectPositions)
    \/ MouseRelease({"Control"}, {"Left"})
    \/ Sync
    \/ DefineScale
    \/ ResetScale
    \/ LoadAlembicScene

ScaleSpec == InitWith({"RECTANGLE"}, InitRadii) /\ [][ScaleNext]_vars

\* ------------------------------------------------------------------------
\* properties of the camera events
\* ------------------------------------------------------------------------
\* C1: every mouse release, whatever its modifier and button, leaves the
\* camera mode Idle
ReleaseResetsMode ==
    [][(\E m \in Modifiers, b \in Buttons : mouseReleaseEvent(m, b))
           => _cameraMode' = "Idle"]_vars

\* C5: the orbit radius is never negative
RadiusNonNegative == _camera.lookAtRadius >= 0

\* C6: a move with the camera modifier while the mode is Idle changes neither
\* the view matrix, nor the orbit radius, nor the cached orbit centre, nor
\* the last pointer sample
IdleMoveChangesNothing ==
    [][(_cameraMode = "Idle" /\ \E p \in Positions : mouseMoveEvent("Alt", p))
           => UNCHANGED <<_camera, _camMatTmp, _lookAtTmp, _mousePos>>]_vars

\* an Idle view whose camera a finished drag has moved away from its first
\* pose, where the pointer has been sampled: the next move with the camera
\* modifier is an Idle move
IdleAfterDrag ==
    /\ _cameraMode = "Idle"
    /\ _mousePos = Pt(200, 0)
    /\ \E radius \in InitRadii : _camera # CameraInit(radius)

\* ------------------------------------------------------------------------
\* properties of the plane requests
\* ------------------------------------------------------------------------
\* the points lie on one line
Collinear(points) ==
    \A i, j \in 1..Len(points) :
        Cross(<<(points[i][1] - points[1][1]) \div One,
                (points[i][2] - points[1][2]) \div One,
                (points[i][3] - points[1][3]) \div One>>,
              <<(points[j][1] - points[1][1]) \div One,
                (points[j][2] - points[1][2]) \div One,
                (points[j][3] - points[1][3]) \div One>>) = NullVec

CollinearStoresNothing ==
    [][(/\ _selectedPoints = "selection"
        /\ Len(SelectedPoints) >= 3
        /\ Collinear(SelectedPoints)
        /\ definePlane)
           => UNCHANGED planeVars]_vars

\* C4: the stored roll lies within -359..359 degrees
RollClamped == _yrotDegrees \in -359..359

\* C7: defineYRot, called or reached by a roll drag, while the normal is
\* null changes neither the roll nor the pending plane request and emits no
\* yrotChanged
NullNormalRejectsRoll ==
    [][(/\ isNull(_planeNormal)
        /\ \/ \E degrees \in RollInputs : defineYRot(degrees)
           \/ \E p \in Positions : mouseMoveEvent("Shift", p))
           => /\ UNCHANGED <<_yrotDegrees, _planeDefined, _planeNormal, _planeOrigin>>
              /\ "yrotChanged" \notin emitted']_vars

\* the plane has been cleared after a roll was stored: the normal is null,
\* the roll is not 0, and no plane request is pending
ClearedWithRoll ==
    /\ isNull(_planeNormal)
    /\ _yrotDegrees # 0
    /\ ~_planeDefined
    /\ emitted = {}

\* C8: a flipPlaneNormal leaves the origin and the roll alone, a second one
\* right after it would restore the normal, and on a null normal it changes
\* nothing
FlipInvolutive ==
    [][flipPlaneNormal
           => /\ UNCHANGED <<_planeOrigin, _yrotDegrees>>
              /\ (IF ~isNull(_planeNormal') THEN Neg(_planeNormal') ELSE _planeNormal')
                     = _planeNormal
              /\ isNull(_planeNormal) => UNCHANGED planeVars]_vars

\* the renderer shows a plane and the view holds, pending, the same plane
\* with the opposite normal
FlippedPending ==
    /\ _planeDefined
    /\ ~isNull(_planeNormal)
    /\ _renderer.plane.shown
    /\ _renderer.plane.normal = Neg(_planeNormal)
    /\ _renderer.plane.origin = _planeOrigin
    /\ _renderer.plane.yrot = _yrotDegrees

\* ------------------------------------------------------------------------
\* delivery of the plane requests
\* ------------------------------------------------------------------------
\* a sync call has handed the current normal, origin and roll to the
\* renderer, and no plane request is pending
Delivered ==
    /\ ~_planeDefined
    /\ _renderer.live
    /\ _renderer.plane = [shown  |-> TRUE,
                          normal |-> _planeNormal,
                          origin |-> _planeOrigin,
                          yrot   |-> _yrotDegrees]

\* a step that raises a request sync serves before the plane: a scene to
\* load, a selected area, a selection to clear
RaisesEarlierRequest ==
    \/ loadAlembicScene(SceneUrl)
    \/ \E b \in Buttons : mouseReleaseEvent("Control", b)

\* C9 as stated: with sync called again and again, every pending plane
\* request is delivered, or the process has ended on an unset pointer
PlaneEventuallyDelivered ==
    (_planeDefined /\ ~crashed) ~> (Delivered \/ crashed)

\* C9: with sync called again and again, and from some point on no new
\* scene, selection or clear-selection request, every pending plane request
\* is delivered, or the process has ended on an unset pointer
PlaneDeliveredOnceQuiet ==
    (<>[][~RaisesEarlierRequest]_vars)
        => ((_planeDefined /\ ~crashed) ~> (Delivered \/ crashed))

\* a plane request is pending together with a scene to load, a selected
\* area and a selection to clear
PlaneBehindAll ==
    /\ _planeDefined
    /\ ~crashed
    /\ _alembicSceneUrl # ""
    /\ ~isEmpty(_selectedArea)
    /\ _clearSelection

\* ------------------------------------------------------------------------
\* reversibility of the dolly
\* ------------------------------------------------------------------------
\* pointer deltas of a Zoom drag, in pixels
DollyDeltas == {-173, -100, -71, 71, 100, 173}

\* the working matrix and the radius after a dolly by the pointer delta d
\* and then by -d, from the current state
ThereAndBack(d) ==
    LET there == translateLineOfSightCamera(_camMatTmp, _camera.lookAtRadius, d, 0)
    IN  translateLineOfSightCamera(there.cam, there.radius, -d, 0)

\* the value in between: after the dolly by d alone
There(d) == translateLineOfSightCamera(_camMatTmp, _camera.lookAtRadius, d, 0)

\* the distance between neighbouring floats at magnitude m
Ulp(m) == 2^ShiftOf(Abs(m))

\* b is a within one unit in the last place of the larger of a and the
\* value in between, mid
Near(a, mid, b) == Abs(b - a) <= Ulp(Max(Abs(a), Abs(mid)))

\* C10 as stated: a dolly by d and then by -d restores the view matrix and
\* the radius
DollyReversible ==
    \A d \in DollyDeltas :
        /\ ThereAndBack(d).cam = _camMatTmp
        /\ ThereAndBack(d).radius = _camera.lookAtRadius

\* C10: a dolly by d and then by -d restores the rotation and the sideways
\* translation of the view matrix, and restores its translation along the
\* line of sight and the radius to within one unit in the last place
DollyReversibleToRounding ==
    \A d \in DollyDeltas :
        /\ ThereAndBack(d).cam.r = _camMatTmp.r
        /\ ThereAndBack(d).cam.t[1] = _camMatTmp.t[1]
        /\ ThereAndBack(d).cam.t[2] = _camMatTmp.t[2]
        /\ Near(_camMatTmp.t[3], There(d).cam.t[3], ThereAndBack(d).cam.t[3])
        /\ Near(_camera.lookAtRadius, There(d).radius, ThereAndBack(d).radius)

\* a view, dollied away from its first pose, from which some dolly and its
\* opposite do not restore the radius
DollyRoundsOff ==
    /\ \E radius \in InitRadii : _camera # CameraInit(radius)
    /\ \E d \in DollyDeltas : ThereAndBack(d).radius # _camera.lookAtRadius

\* ------------------------------------------------------------------------
\* the Zoom drag and the wheel
\* ------------------------------------------------------------------------
\* the pointer delta of the whole drag, from the press at ZoomOrigin to
\* the last sample
DragTotal == (ZoomOrigin.x - _mousePos.x) + (ZoomOrigin.y - _mousePos.y)

\* the first pose dollied by the pointer delta of the whole drag at once
DirectDrag(radius) ==
    translateLineOfSightCamera(CameraInit(radius).viewMatrix, radius, DragTotal, 0)

\* the view is in the one Zoom drag and has moved
InZoomDrag == _cameraMode = "Zoom" /\ _mousePos \in ZoomPositions

\* C11 as stated: in a Zoom drag the radius and the view matrix are those
\* of a dolly by 0.01 times the pointer delta from the press to the last
\* sample, whatever the positions in between
ZoomDragExact ==
    InZoomDrag =>
        \E radius \in InitRadii :
            /\ _camera.lookAtRadius = DirectDrag(radius).radius
            /\ _camera.viewMatrix = DirectDrag(radius).cam

\* C11: in a Zoom drag the radius is that of a dolly by 0.01 times the
\* pointer delta from the press to the last sample to within one unit in
\* the last place of the largest radius per move and one for the dolly at
\* once, the camera has moved along its forward axis only, and by the
\* change of the radius: the translation along the forward axis is the
\* radius negated, and the orbit centre stays where it was
ZoomDragToRounding ==
    InZoomDrag =>
        /\ \E radius \in InitRadii :
              /\ Abs(_camera.lookAtRadius - DirectDrag(radius).radius)
                     <= (_mousePos.x + 1) * Ulp(MaxCoord * One)
              /\ _camera.viewMatrix.r = CameraInit(radius).viewMatrix.r
              /\ _camera.viewMatrix.t[1] = CameraInit(radius).viewMatrix.t[1]
              /\ _camera.viewMatrix.t[2] = CameraInit(radius).viewMatrix.t[2]
              /\ _lookAtTmp = lookAt(CameraInit(radius))
        /\ _camera.viewMatrix.t[3] = -_camera.lookAtRadius
        /\ _camMatTmp = _camera.viewMatrix

\* a Zoom drag of two moves or more has left a radius that the dolly by
\* the whole pointer delta at once does not give
ZoomDragRoundsOff ==
    /\ InZoomDrag
    /\ _mousePos.x >= 2
    /\ \E radius \in InitRadii : _camera.lookAtRadius # DirectDrag(radius).radius

\* the steps of a wheel turn of delta w
WheelSteps(w) == TruncDiv(TruncDiv(w, 8), 15)

StillRotateChangesNothing ==
    [][(_cameraMode = "Rotate" /\ mouseMoveEvent("Alt", _mousePos))
           => /\ _camera'.viewMatrix = _camera.viewMatrix
              /\ _camMatTmp' = _camMatTmp]_vars

\* C13: a Rotate move with dx = 0 and dy = 0 leaves the rotation of the
\* view matrix, the radius and the cached orbit centre unchanged, and
\* each component of its translation within one unit in the last place
\* of the largest coordinate
StillRotateToRounding ==
    [][(_cameraMode = "Rotate" /\ mouseMoveEvent("Alt", _mousePos))
           => /\ _camera'.viewMatrix.r = _camera.viewMatrix.r
              /\ \A i \in 1..3 :
                    Abs(_camera'.viewMatrix.t[i] - _camera.viewMatrix.t[i])
                        <= Ulp(MaxCoord * One)
              /\ _camMatTmp' = _camera'.viewMatrix
              /\ _camera'.lookAtRadius = _camera.lookAtRadius
              /\ _lookAtTmp' = _lookAtTmp]_vars

\* a Rotate drag, about an orbit centre away from the origin, whose next
\* move without a pointer delta changes the view matrix
StillRotateRoundsOff ==
    /\ _cameraMode = "Rotate"
    /\ _lookAtTmp # NullVec
    /\ _camMatTmp = _camera.viewMatrix
    /\ turnTableRotateCamera(_camMatTmp, _lookAtTmp, 0, 0) # _camMatTmp

\* ------------------------------------------------------------------------
\* the selection
\* ------------------------------------------------------------------------
\* what a selection release does: a release with p0 = p1 requests a clear
\* and leaves the pending area empty, one with p0 # p1 leaves the clear
\* request as it was, and the pending area is the rectangle from the
\* smaller to the larger coordinates of p0 and p1, less one pixel
ReleaseSetsArea ==
    (\E b \in Buttons : mouseReleaseEvent("Control", b)) =>
        /\ _selectedP0 = _selectedP1 => _clearSelection' /\ isEmpty(_selectedArea')
        /\ _selectedP0 # _selectedP1 => _clearSelection' = _clearSelection
        /\ _selectedArea' = [x1 |-> Min(_selectedP0.x, _selectedP1.x),
                             y1 |-> Min(_selectedP0.y, _selectedP1.y),
                             x2 |-> Max(_selectedP0.x, _selectedP1.x) - 1,
                             y2 |-> Max(_selectedP0.y, _selectedP1.y) - 1]

\* the state a release with p0 = p1 leaves: a clear requested, no area
ClearRequested == _clearSelection /\ isEmpty(_selectedArea)

\* C14 as stated: a selection release does as above, and the sync call
\* after a release with p0 = p1 clears the renderer's selection and adds
\* no points
ClickClearsAtNextSync ==
    [][/\ ReleaseSetsArea
       /\ (ClearRequested /\ sync)
              => _renderer'.selection = <<>> /\ ~_clearSelection']_vars

\* C14: a selection release does as above, and the first sync call after
\* a release with p0 = p1 that finds no scene to load clears the
\* renderer's selection and adds no points; one that finds a scene to load
\* leaves the clear requested
ClickClearsAtNextFreeSync ==
    [][/\ ReleaseSetsArea
       /\ (ClearRequested /\ sync) =>
              IF _alembicSceneUrl = ""
              THEN _renderer'.selection = <<>> /\ ~_clearSelection'
              ELSE ClearRequested']_vars

\* a release with p0 = p1 has requested a clear of a selection that holds
\* points, while a scene waits to be loaded
ClickBehindLoad ==
    /\ ClearRequested
    /\ _selectedP0 = NullPoint
    /\ _mousePos # NullPoint
    /\ Len(_renderer.selection) > 0
    /\ _alembicSceneUrl # ""

\* ------------------------------------------------------------------------
\* the scale
\* ------------------------------------------------------------------------
\* C15: defineScale(s) on the selection sync installed, when it holds
\* exactly two points, stores s and emits scaleChanged if s differs from
\* the scale stored before; with any other number of points it changes
\* nothing and emits nothing
ScaleChangeAnnounced ==
    [][\A s \in ScaleInputs :
          (defineScale(s) /\ _selectedPoints # "unset") =>
              IF Len(SelectedPoints) = 2
              THEN /\ _scale' = s
                   /\ s # _scale => "scaleChanged" \in emitted'
              ELSE /\ UNCHANGED scaleVars
                   /\ emitted' = {}]_vars

\* ------------------------------------------------------------------------
\* the plane requests and the renderer
\* ------------------------------------------------------------------------
\* the normal records which plane request was the last to take effect:
\* clearPlane makes it null, only a definePlane makes it non-null again,
\* and flips and rolls take effect only while it is non-null
NormalTracksRequests ==
    [][/\ clearPlane => isNull(_planeNormal')
       /\ (isNull(_planeNormal) /\ ~isNull(_planeNormal')) => definePlane
       /\ (~isNull(_planeNormal) /\ isNull(_planeNormal')) => clearPlane]_vars

\* sync has consumed every plane request
PlaneRequestsServed == _renderer.live /\ ~_planeDefined /\ ~_clearPlane

\* C16: once sync has consumed the pending plane requests, the renderer
\* shows a plane if and only if the last plane request to take effect was
\* a definePlane, flipPlaneNormal or defineYRot and not a clearPlane
PlaneShownIffLastRequested ==
    PlaneRequestsServed => (_renderer.plane.shown <=> ~isNull(_planeNormal))

\* C17: the plane sync has handed to the renderer has a non-null normal,
\* and so has every plane that waits for sync
PlaneGivenHasNormal ==
    /\ _renderer.plane.shown => ~isNull(_renderer.plane.normal)
    /\ _planeDefined => ~isNull(_planeNormal)

\* C18: the sync call that hands the distance line to the renderer finds
\* the pending selected area empty, and the line it hands over runs
\* between the corners of that empty rectangle
DistanceLineFromEmptyArea ==
    [][(sync /\ _scaleDefined /\ ~_scaleDefined') =>
           /\ isEmpty(_selectedArea)
           /\ _renderer'.distanceLine = [shown |-> TRUE,
                                         p0    |-> topLeft(_selectedArea),
                                         p1    |-> bottomRight(_selectedArea)]
           /\ \/ _renderer'.distanceLine.p1.x < _renderer'.distanceLine.p0.x
              \/ _renderer'.distanceLine.p1.y < _renderer'.distanceLine.p0.y]_vars

\* the renderer has been handed a distance line for a scale defined on two
\* selected points, after a drag along one column left an empty area
LineAfterColumnDrag ==
    /\ _renderer.distanceLine.shown
    /\ _renderer.distanceLine.p0 = Pt(400, 0)
    /\ _renderer.distanceLine.p1 = Pt(399, 199)
    /\ Len(_renderer.selection) = 2
    /\ _scale = 2

\* ------------------------------------------------------------------------
\* the selected-points pointer
\* ------------------------------------------------------------------------
\* C19: definePlane and defineScale run only once sync has installed the
\* pointer to the selected points
PointerInstalledBeforeRead ==
    [][(definePlane \/ \E s \in ScaleInputs : defineScale(s))
           => _selectedPoints # "unset"]_vars

=============================================================================
